---- MODULE Spec2Model ----
(***************************************************************************)
(* NetSecSim dashboard: the poll loop of DataCollectionThread, the parsing *)
(* of `show ip bgp summary` / `show ip bgp` output, the prefix-hijack      *)
(* check, and the widgets that display a collected snapshot.               *)
(*                                                                         *)
(* Text is modelled at character level.  A string is a sequence of         *)
(* one-character strings, a line is the sequence of its whitespace-        *)
(* separated fields (what line.split() returns) and a command output is    *)
(* the sequence of its lines (what stdout.split('\n') returns).  None of   *)
(* the patterns the code searches for ('.', "(Policy)", '*>',              *)
(* '8.8.8.0/24') contains whitespace, so a search in a line or in a whole  *)
(* output is a search in its fields.                                       *)
(***************************************************************************)
EXTENDS Integers, Sequences, FiniteSets, TLC

VARIABLES
    running,      \* DataCollectionThread.running
    pc,           \* position of DataCollectionThread.run
    now,          \* the wall clock read by datetime.now()
    cycles,       \* number of poll cycles started so far
    emitted,      \* every snapshot published (the dict passed to
                  \* data_updated.emit), in order
    delivered,    \* how many of them the GUI thread has handled
    cycleLog,     \* per finished cycle: what the commands returned, whether
                  \* stop() had been called by then, and the index in
                  \* emitted of the dict it emitted (0 when none)
    panel,        \* ContainerStatusWidget labels
    topology,     \* NetworkTopologyWidget drawing
    status_bar,   \* MainWindow.status_bar message
    shown,        \* per widget: timestamp of the snapshot it displays
    summaryIn,    \* parser harness: lines of a session summary
    parsed,       \* parser harness: counters once the summary is parsed
    routeIn,      \* route-count harness: lines of a route dump
    counted,      \* route-count harness: the counts of the parses made
    config,       \* per router: the statements of its BGP configuration that
                  \* the attack buttons add and remove
    check,        \* WorkingBGPAttackSimulator.show_bgp_status: position and
                  \* the lines printed so far
    last_op,      \* the button operation run last: the containers its
                  \* commands were issued to, how each command ended, and
                  \* the entries it appended to the attack log
    container_states, \* NetSecSimDashboard.container_states
    nodes,        \* NetworkTopologyWidget.nodes of the enhanced dashboard:
                  \* the status of each node
    attack_path,  \* NetworkTopologyWidget.attack_path
    indicators,   \* the status labels of NetSecSimDashboard.container_widgets
    attack_log,   \* the lines of NetSecSimDashboard.attack_log
    status_text   \* the message of the enhanced dashboard's status bar

vars == <<running, pc, now, cycles, emitted, delivered, cycleLog,
          panel, topology, status_bar, shown, summaryIn, parsed,
          routeIn, counted,
          config, check, last_op,
          container_states, nodes, attack_path, indicators, attack_log,
          status_text>>

(***************************************************************************)
(* Bounds of the model.                                                    *)
(***************************************************************************)
MaxCycles == 2
MaxLines == 3
MaxLogged == 4
MaxTicks == 2

(***************************************************************************)
(* Delays, in seconds.                                                     *)
(***************************************************************************)
SleepSeconds == 2
BackoffSeconds == 5
TimerSeconds == 3
StatusTimerSeconds == 1

(***************************************************************************)
(* Static topology.                                                        *)
(***************************************************************************)
containers == <<"as100", "as200", "as300", "as400", "as500">>

Nodes == {containers[i] : i \in DOMAIN containers}

edges == << <<"as100", "as200">>, <<"as200", "as300">>,
            <<"as200", "as400">>, <<"as300", "as500">> >>

Edges == {edges[i] : i \in DOMAIN edges}

Peers(n) == {e[2] : e \in {d \in Edges : d[1] = n}}
              \cup {e[1] : e \in {d \in Edges : d[2] = n}}

Range(s) == {s[i] : i \in DOMAIN s}

(***************************************************************************)
(* Python str operations on sequences of characters.                       *)
(***************************************************************************)
StartsAt(s, p, i) ==
    /\ i + Len(p) - 1 <= Len(s)
    /\ \A j \in 1..Len(p) : s[i + j - 1] = p[j]

\* p in s
Contains(s, p) == \E i \in 1..Len(s) : StartsAt(s, p, i)

\* s.count(p): non-overlapping occurrences, scanning from the left
RECURSIVE CountFrom(_, _, _)
CountFrom(s, p, i) ==
    IF i + Len(p) - 1 > Len(s) THEN 0
    ELSE IF StartsAt(s, p, i) THEN 1 + CountFrom(s, p, i + Len(p))
    ELSE CountFrom(s, p, i + 1)

Count(s, p) == CountFrom(s, p, 1)

\* p in line, for a pattern p without whitespace
InLine(line, p) == \E i \in DOMAIN line : Contains(line[i], p)

\* p in output
InOutput(out, p) == \E i \in DOMAIN out : InLine(out[i], p)

RECURSIVE SumSeq(_)
SumSeq(s) == IF s = <<>> THEN 0 ELSE Head(s) + SumSeq(Tail(s))

\* output.count(p), for a pattern p without whitespace
CountOutput(out, p) ==
    SumSeq([i \in DOMAIN out |->
              SumSeq([j \in DOMAIN out[i] |-> Count(out[i][j], p)])])

(***************************************************************************)
(* The strings the code looks for.                                         *)
(***************************************************************************)
Dot == <<".">>
PolicyMarker == <<"(", "P", "o", "l", "i", "c", "y", ")">>
BestMarker == <<"*", ">">>
MonitoredPrefix == <<"8", ".", "8", ".", "8", ".", "0", "/", "2", "4">>
\* the nodes of the enhanced dashboard (netsec_dashboard_enhanced.py)
EnhancedNodes == {"AS100", "AS200", "AS300", "AS400", "AS500"}

AuthorizedOrigin == "as300"

NetPrefix == <<"1", "7", "2", ".", "2", "0", ".", "0", ".">>

as_ips ==
    [n \in Nodes |->
        NetPrefix \o (CASE n = "as100" -> <<"1", "0">>
                        [] n = "as200" -> <<"2", "0">>
                        [] n = "as300" -> <<"3", "0">>
                        [] n = "as400" -> <<"4", "0">>
                        [] n = "as500" -> <<"5", "0">>)]

(***************************************************************************)
(* Command outputs the polled daemons can print.  A session summary is     *)
(* named by the node that prints it and by the situation of its sessions,  *)
(* a route dump by the situation of its table.                             *)
(***************************************************************************)
Num == <<"4">>
Word == <<"B", "G", "P">>
Star == <<"*">>
Gt == <<">">>
OtherPrefix == <<"1", "0", ".", "0", ".", "0", ".", "0", "/", "8">>
LocalPrefix == <<"9", ".", "9", ".", "9", ".", "0", "/", "2", "4">>
LongerPrefix == <<"1">> \o MonitoredPrefix
AnyHop == <<"0", ".", "0", ".", "0", ".", "0">>

Fill(k, f) == [i \in 1..k |-> f]

\* "BGP router identifier 172.20.0.10, local AS number 65100 vrf-id 0"
RouterIdLine(n) == Fill(3, Word) \o <<as_ips[n]>> \o Fill(6, Num)

\* "Neighbor V AS MsgRcvd MsgSent TblVer InQ OutQ Up/Down State/PfxRcd"
HeaderLine == Fill(10, Word)

\* "172.20.0.20 4 65200 10 12 0 0 0 00:05:11 3": k fields, the last is f
PeerLine(peer, k, f) == <<as_ips[peer]>> \o Fill(k - 2, Num) \o <<f>>

PeerSeq(n) == SelectSeq(containers, LAMBDA m : m \in Peers(n))

SummaryKinds == {"up", "policy", "partial", "banner", "short", "empty"}

SummaryText(n, kind) ==
    LET ps == PeerSeq(n)
        banner == <<RouterIdLine(n), HeaderLine>>
    IN  CASE kind = "up" ->
               banner \o [i \in DOMAIN ps |-> PeerLine(ps[i], 10, Num)]
          [] kind = "policy" ->
               banner \o [i \in DOMAIN ps |->
                            PeerLine(ps[i], 10,
                                     IF i = 1 THEN PolicyMarker ELSE Num)]
          [] kind = "partial" ->
               banner \o [i \in DOMAIN Tail(ps) |->
                            PeerLine(Tail(ps)[i], 10, Num)]
          [] kind = "banner" -> banner
          [] kind = "short" ->
               banner \o [i \in DOMAIN ps |-> PeerLine(ps[i], 9, Num)]
          [] kind = "empty" -> << <<>> >>

\* "   Network  Next Hop  Metric LocPrf Weight Path" and the legend
\* "Status codes: * valid, > best"
RouteHeader == << <<Word, Word, Star, Word, Gt, Word>>, Fill(6, Word) >>

RouteLine(marker, prefix) == <<marker, prefix, AnyHop, Num, Num, Word>>

RouteKinds == {"clean", "best", "best2", "nonbest", "longer", "empty",
               "banner"}

CleanRoutes ==
    RouteHeader \o <<RouteLine(BestMarker, OtherPrefix),
                     RouteLine(BestMarker, LocalPrefix)>>

RouteText(kind) ==
    CASE kind = "clean" -> CleanRoutes
      [] kind = "best" ->
           CleanRoutes \o <<RouteLine(BestMarker, MonitoredPrefix)>>
      [] kind = "best2" ->
           CleanRoutes \o <<RouteLine(BestMarker, MonitoredPrefix),
                            RouteLine(Star, MonitoredPrefix)>>
      [] kind = "nonbest" ->
           CleanRoutes \o <<RouteLine(Star, MonitoredPrefix)>>
      [] kind = "longer" ->
           CleanRoutes \o <<RouteLine(BestMarker, LongerPrefix)>>
      [] kind = "empty" -> << <<>> >>
      [] kind = "banner" -> RouteHeader

(***************************************************************************)
(* Parsing of `show ip bgp summary` (collect_network_data).                *)
(***************************************************************************)
\* the body of `for line in lines`, on the counters (neighbors, established)
\* CountLine without the test for ten fields
CountLineMissingWidth(line, acc) ==
    IF Len(line) > 0 /\ InLine(line, Dot) /\ Len(line) >= 8
    THEN IF Count(line[1], Dot) = 3
         THEN [neighbors |-> acc.neighbors + 1,
               established |-> IF ~InLine(line, PolicyMarker)
                               THEN acc.established + 1
                               ELSE acc.established]
         ELSE acc
    ELSE acc

\* CountLine without the test for the policy marker
CountLinePolicyBlind(line, acc) ==
    IF Len(line) > 0 /\ InLine(line, Dot) /\ Len(line) >= 8
    THEN IF Len(line) >= 10 /\ Count(line[1], Dot) = 3
         THEN [neighbors |-> acc.neighbors + 1,
               established |-> acc.established + 1]
         ELSE acc
    ELSE acc

CountLine(line, acc) ==
    IF Len(line) > 0 /\ InLine(line, Dot) /\ Len(line) >= 8
    THEN IF Len(line) >= 10 /\ Count(line[1], Dot) = 3
         THEN [neighbors |-> acc.neighbors + 1,
               established |-> IF ~InLine(line, PolicyMarker)
                               THEN acc.established + 1
                               ELSE acc.established]
         ELSE acc
    ELSE acc

RECURSIVE CountLines(_, _)
CountLines(lines, acc) ==
    IF lines = <<>> THEN acc
    ELSE CountLines(Tail(lines), CountLine(Head(lines), acc))

\* neighbor_count and established_count of one summary output
SessionCounts(lines) == CountLines(lines, [neighbors |-> 0, established |-> 0])

\* memoised over the outputs above
summaryCounts ==
    [n \in Nodes |-> [k \in SummaryKinds |-> SessionCounts(SummaryText(n, k))]]

(***************************************************************************)
(* Reading of `show ip bgp` (collect_network_data).                        *)
(***************************************************************************)
\* route_output.count('*>')
RouteCount(out) == CountOutput(out, BestMarker)

\* '8.8.8.0/24' in route_output
PrefixSeen(out) == InOutput(out, MonitoredPrefix)

routeCount == [k \in RouteKinds |-> RouteCount(RouteText(k))]

prefixSeen == [k \in RouteKinds |-> PrefixSeen(RouteText(k))]

(***************************************************************************)
(* What the external commands of one poll cycle return.  A command ends    *)
(* "ok" (exit status 0), "exit" (non-zero exit status) or "timeout"        *)
(* (subprocess.run raises); out names the text on its standard output.     *)
(***************************************************************************)
Ok(k) == [kind |-> "ok", out |-> k]
Exit(k) == [kind |-> "exit", out |-> k]
Timeout == [kind |-> "timeout", out |-> "empty"]

Base ==
    [ps |-> [kind |-> "ok", names |-> containers],
     summary |-> [n \in Nodes |-> Ok("up")],
     routes |-> [n \in Nodes |->
                   IF n = AuthorizedOrigin THEN Ok("best") ELSE Ok("clean")]]

With(n, s, r) == [Base EXCEPT !.summary[n] = s, !.routes[n] = r]

WithPs(kind, names, n, r) ==
    [Base EXCEPT !.ps = [kind |-> kind, names |-> names], !.routes[n] = r]

Scenarios ==
    { Base,
      With("as500", Ok("up"), Ok("best")),
      With("as500", Ok("up"), Ok("best2")),
      With("as100", Ok("up"), Ok("nonbest")),
      With("as100", Ok("up"), Ok("longer")),
      With("as200", Ok("partial"), Ok("clean")),
      With("as400", Ok("policy"), Ok("clean")),
      With("as400", Ok("banner"), Ok("banner")),
      With("as400", Ok("short"), Ok("clean")),
      With("as100", Ok("empty"), Ok("empty")),
      With("as200", Timeout, Ok("clean")),
      With("as200", Ok("up"), Timeout),
      With("as500", Timeout, Ok("best")),
      With("as200", Exit("up"), Ok("clean")),
      With("as500", Ok("up"), Exit("best")),
      WithPs("timeout", <<>>, "as500", Ok("best")),
      WithPs("ok", <<>>, "as500", Ok("clean")),
      WithPs("ok", <<"as100", "as200", "as300", "as400">>, "as500", Ok("best")) }

(***************************************************************************)
(* DataCollectionThread.collect_network_data                               *)
(***************************************************************************)
\* d.get(k, default) and d[k] = v on a dict
Get(f, k, default) == IF k \in DOMAIN f THEN f[k] ELSE default

Put(f, k, v) == (k :> v) @@ f

\* the listing taking every container for running when `docker ps` fails
RunningContainersAssumed(ps) ==
    IF ps.kind = "ok" THEN Range(ps.names) ELSE Nodes

\* lines 377-382: the names printed by `docker ps`, [] when it fails
RunningContainers(ps) == IF ps.kind = "ok" THEN Range(ps.names) ELSE {}

\* lines 392-415: the session entry of a running container
SummaryStep(container, res, bgp_sessions) ==
    CASE res.kind = "timeout" ->
           Put(bgp_sessions, container, [neighbors |-> 0, established |-> 0])
      [] res.kind = "ok" ->
           Put(bgp_sessions, container, summaryCounts[container][res.out])
      [] OTHER -> bgp_sessions

\* the hijack test without the exemption of the origin
FlaggedAnyNode(container, res) ==
    /\ res.kind = "ok"
    /\ prefixSeen[res.out]

\* line 426: the hijack test
Flagged(container, res) ==
    /\ res.kind = "ok"
    /\ prefixSeen[res.out]
    /\ container # AuthorizedOrigin

\* RouteStep setting the flag for any container that has the prefix
RouteStepFlagsOrigin(container, res, container_data) ==
    IF res.kind = "ok"
    THEN [container_data EXCEPT
            !.routes = routeCount[res.out],
            !.under_attack = prefixSeen[res.out]]
    ELSE container_data

\* lines 417-434: routes and under_attack of a running container
RouteStep(container, res, container_data) ==
    IF res.kind = "ok"
    THEN [container_data EXCEPT
            !.routes = routeCount[res.out],
            !.under_attack = Flagged(container, res)]
    ELSE container_data

\* AttackStep keeping the event of the previous snapshot
AttackStepSticky(container, res, attacks) ==
    IF \/ Flagged(container, res)
       \/ /\ emitted # <<>>
          /\ \E i \in DOMAIN emitted[Len(emitted)].attacks :
                emitted[Len(emitted)].attacks[i].target = container
    THEN Append(attacks, [type |-> "prefix_hijack",
                          target |-> container,
                          network |-> MonitoredPrefix])
    ELSE attacks

\* AttackStep appending one event per occurrence of the prefix
AttackStepPerOccurrence(container, res, attacks) ==
    IF Flagged(container, res)
    THEN attacks \o Fill(CountOutput(RouteText(res.out), MonitoredPrefix),
                        [type |-> "prefix_hijack",
                         target |-> container,
                         network |-> MonitoredPrefix])
    ELSE attacks

\* AttackStep appending nothing
AttackStepDropped(container, res, attacks) == attacks

\* lines 426-432: the event appended to data['attacks']
AttackStep(container, res, attacks) ==
    IF Flagged(container, res)
    THEN Append(attacks, [type |-> "prefix_hijack",
                          target |-> container,
                          network |-> MonitoredPrefix])
    ELSE attacks

\* the iteration with both queries in one try: the first query that times
\* out ends the polling of the container with the zero session entry
PollContainerOneTry(container, obs, data) ==
    LET up == container \in RunningContainers(obs.ps)
        container_data ==
            [status |-> IF up THEN "running" ELSE "stopped",
             routes |-> 0,
             under_attack |-> FALSE]
        polled == RouteStep(container, obs.routes[container], container_data)
    IN  IF ~up
        THEN [data EXCEPT !.containers = Put(@, container, container_data)]
        ELSE IF \/ obs.summary[container].kind = "timeout"
                \/ obs.routes[container].kind = "timeout"
             THEN [data EXCEPT
                     !.bgp_sessions = Put(@, container, [neighbors |-> 0,
                                                         established |-> 0]),
                     !.containers = Put(@, container, container_data)]
             ELSE [data EXCEPT
                     !.bgp_sessions =
                         SummaryStep(container, obs.summary[container], @),
                     !.attacks =
                         AttackStep(container, obs.routes[container], @),
                     !.containers = Put(@, container, polled)]

\* the iteration storing the entry of a running container only
PollContainerRunningOnly(container, obs, data) ==
    LET container_data ==
            [status |-> "running", routes |-> 0, under_attack |-> FALSE]
        polled == RouteStep(container, obs.routes[container], container_data)
    IN  IF container \in RunningContainers(obs.ps)
        THEN [data EXCEPT
                !.bgp_sessions =
                    SummaryStep(container, obs.summary[container], @),
                !.attacks = AttackStep(container, obs.routes[container], @),
                !.containers = Put(@, container, polled)]
        ELSE data

\* lines 384-436: one iteration of `for container in containers`
PollContainer(container, obs, data) ==
    LET running_containers == RunningContainers(obs.ps)
        up == container \in running_containers
        container_data ==
            [status |-> IF up THEN "running" ELSE "stopped",
             routes |-> 0,
             under_attack |-> FALSE]
        polled == RouteStep(container, obs.routes[container], container_data)
    IN  IF up
        THEN [data EXCEPT
                !.bgp_sessions =
                    SummaryStep(container, obs.summary[container], @),
                !.attacks = AttackStep(container, obs.routes[container], @),
                !.containers = Put(@, container, polled)]
        ELSE [data EXCEPT !.containers = Put(@, container, container_data)]

RECURSIVE PollFrom(_, _, _)
PollFrom(i, obs, data) ==
    IF i > Len(containers) THEN data
    ELSE PollFrom(i + 1, obs, PollContainer(containers[i], obs, data))

\* lines 384-436 as the sequence of what one iteration does, in order: the
\* two queries of a running container, then (line 426, inside the same
\* iteration) the hijack test on the route output just received
StepsOf(container, obs) ==
    IF container \notin RunningContainers(obs.ps)
    THEN <<>>
    ELSE <<[op |-> "summary", node |-> container],
           [op |-> "routes", node |-> container]>>
         \o (IF obs.routes[container].kind = "ok"
             THEN <<[op |-> "verdict", node |-> container]>>
             ELSE <<>>)

RECURSIVE StepsFrom(_, _)
StepsFrom(i, obs) ==
    IF i > Len(containers) THEN <<>>
    ELSE StepsOf(containers[i], obs) \o StepsFrom(i + 1, obs)

\* the order of operations of collect_network_data
CollectSteps(obs) ==
    <<[op |-> "docker_ps", node |-> "none"]>> \o StepsFrom(1, obs)

\* collect_network_data filling the dict of the previous cycle again
CollectNetworkDataReused(obs, timestamp) ==
    PollFrom(1, obs,
             IF emitted = <<>>
             THEN [timestamp |-> timestamp, containers |-> <<>>,
                   bgp_sessions |-> <<>>, attacks |-> <<>>]
             ELSE [emitted[Len(emitted)] EXCEPT !.timestamp = timestamp])

\* lines 368-438
CollectNetworkData(obs, timestamp) ==
    PollFrom(1, obs, [timestamp |-> timestamp,
                      containers |-> <<>>,
                      bgp_sessions |-> <<>>,
                      attacks |-> <<>>])

\* collect_network_data without the try around the queries
CollectRaisesOnTimeout(obs) ==
    \E n \in RunningContainers(obs.ps) :
        obs.summary[n].kind = "timeout" \/ obs.routes[n].kind = "timeout"

\* Does an exception leave collect_network_data?  Each subprocess.run call
\* sits in its own try with a bare except (lines 377-382, 392-415, 417-434).
CollectRaises(obs) == FALSE

(***************************************************************************)
(* The widgets (MainWindow.update_dashboard and what it calls).            *)
(***************************************************************************)
NoContainer == [status |-> "unknown", routes |-> 0, under_attack |-> FALSE]
NoSessions == [neighbors |-> 0, established |-> 0]

\* ContainerStatusWidget.update_status
update_status(container_data, bgp_data) ==
    [container \in Nodes |->
        LET data == Get(container_data, container, NoContainer)
            bgp == Get(bgp_data, container, NoSessions)
        IN  [status |-> IF data.status = "running"
                        THEN IF data.under_attack THEN "UNDER ATTACK"
                                                  ELSE "ONLINE"
                        ELSE "OFFLINE",
             bgp |-> <<bgp.established, bgp.neighbors>>,
             alert |-> data.under_attack]]

\* the colour update_topology gives an edge (lines 85-86)
EdgeColor(bgp_data, src, dst) ==
    IF /\ Get(bgp_data, src, NoSessions).established > 0
       /\ Get(bgp_data, dst, NoSessions).established > 0
    THEN "green" ELSE "red"

\* NetworkTopologyWidget.update_topology; graph keeps the node attributes
update_topology(graph, container_data, bgp_data, attack_data) ==
    [graph |->
        [node \in Nodes |->
            IF node \in DOMAIN container_data
            THEN [status |-> container_data[node].status,
                  under_attack |-> container_data[node].under_attack]
            ELSE graph[node]],
     links |-> [e \in Edges |-> EdgeColor(bgp_data, e[1], e[2])],
     labels |->
        [node \in Nodes |->
            [bgp |-> Get(bgp_data, node, NoSessions).established,
             routes |-> Get(container_data, node, NoContainer).routes]],
     hijack |-> \E i \in DOMAIN attack_data :
                   attack_data[i].type = "prefix_hijack"]

\* online_count of update_dashboard (line 308)
OnlineCount(container_data) ==
    Cardinality({n \in DOMAIN container_data :
                    container_data[n].status = "running"})

(***************************************************************************)
(* Initial state: MainWindow.__init__ has built the widgets and started    *)
(* the thread.                                                             *)
(***************************************************************************)
InitProgram ==
    /\ running = TRUE
    /\ pc = "loop"
    /\ now = 0
    /\ cycles = 0
    /\ emitted = <<>>
    /\ delivered = 0
    /\ cycleLog = <<>>
    /\ panel = [n \in Nodes |->
                  [status |-> "UNKNOWN", bgp |-> <<0, 0>>, alert |-> FALSE]]
    /\ topology =
         [graph |-> [n \in Nodes |->
                       [status |-> "unknown", under_attack |-> FALSE]],
          links |-> [e \in Edges |-> "unknown"],
          labels |-> [n \in Nodes |-> [bgp |-> 0, routes |-> 0]],
          hijack |-> FALSE]
    /\ status_bar = [online |-> 0, updated |-> -1]
    /\ shown = [panel |-> -1, topology |-> -1, status_bar |-> -1]
    /\ config = [n \in Nodes |->
                   IF n = AuthorizedOrigin THEN {"network"} ELSE {}]
    /\ check = [pc |-> "idle", i |-> 0, report |-> <<>>]
    /\ last_op = [op |-> "none", issued |-> <<>>, results |-> <<>>,
                  log |-> <<>>]
    /\ container_states = [n \in EnhancedNodes |-> "online"]
    /\ nodes = [n \in EnhancedNodes |-> "online"]
    /\ attack_path = <<>>
    /\ indicators = [n \in EnhancedNodes |-> "ONLINE"]
    /\ attack_log = <<>>
    /\ status_text = [online |-> 0, attacks |-> 0, time |-> -1]
    /\ routeIn = <<>>
    /\ counted = <<>>

Init ==
    /\ InitProgram
    /\ summaryIn = <<>>
    /\ parsed = [done |-> FALSE, neighbors |-> 0, established |-> 0]

(***************************************************************************)
(* DataCollectionThread.run                                                *)
(***************************************************************************)
threadVars == <<pc, now, cycles, emitted, cycleLog>>
guiVars == <<delivered, panel, topology, status_bar, shown>>
parseVars == <<summaryIn, parsed, routeIn, counted>>
enhancedVars == <<container_states, nodes, attack_path, indicators,
                  attack_log, status_text>>
scriptVars == <<config, check, last_op, enhancedVars>>

\* the loop test replaced by `while True`
LoopEnterUnconditional ==
    /\ pc = "loop"
    /\ cycles < MaxCycles
    /\ pc' = "collect"
    /\ cycles' = cycles + 1
    /\ UNCHANGED <<running, now, emitted, cycleLog>>
    /\ UNCHANGED <<delivered, panel, topology, status_bar, shown>>
    /\ UNCHANGED <<summaryIn, parsed, routeIn, counted, config, check, last_op, enhancedVars>>

\* `while self.running` is true: the thread enters the try block
LoopEnter ==
    /\ pc = "loop"
    /\ running
    /\ cycles < MaxCycles
    /\ pc' = "collect"
    /\ cycles' = cycles + 1
    /\ UNCHANGED <<running, now, emitted, cycleLog>>
    /\ UNCHANGED guiVars
    /\ UNCHANGED parseVars
    /\ UNCHANGED scriptVars

\* the try block cleaning up the attacker's router when it detects a hijack
PollCycleCleansUp(inputs) ==
    /\ pc = "collect"
    /\ \E obs \in inputs :
          /\ cycleLog' = Append(cycleLog,
                 [timestamp |-> now, obs |-> obs, fault |-> FALSE,
                  stopped |-> ~running, emit |-> Len(emitted) + 1])
          /\ pc' = "sleep"
          /\ emitted' = Append(emitted, CollectNetworkData(obs, now))
          /\ config' = [n \in Nodes |->
                IF Flagged(n, obs.routes[n]) /\ n \in RunningContainers(obs.ps)
                THEN {} ELSE config[n]]
    /\ UNCHANGED <<running, now, cycles, check, last_op, enhancedVars>>
    /\ UNCHANGED <<delivered, panel, topology, status_bar, shown>>
    /\ UNCHANGED <<summaryIn, parsed, routeIn, counted>>

\* the try block with the signal emitted a second time after the collect
PollCycleEmitTwice ==
    /\ pc = "collect"
    /\ \E obs \in Scenarios :
          /\ cycleLog' = Append(cycleLog,
                 [timestamp |-> now, obs |-> obs, fault |-> FALSE,
                  stopped |-> ~running, emit |-> Len(emitted) + 1])
          /\ pc' = "sleep"
          /\ emitted' = Append(Append(emitted, CollectNetworkData(obs, now)),
                               CollectNetworkData(obs, now))
    /\ UNCHANGED <<running, now, cycles>>
    /\ UNCHANGED <<delivered, panel, topology, status_bar, shown>>
    /\ UNCHANGED <<summaryIn, parsed, routeIn, counted, config, check, last_op, enhancedVars>>

\* the try block up to the sleep: collect, then emit; fault stands for an
\* error raised inside the cycle by anything but the external commands;
\* inputs is the set the results of the cycle's commands are drawn from
PollCycleOf(inputs) ==
    /\ pc = "collect"
    /\ \E obs \in inputs, fault \in BOOLEAN :
          /\ fault => obs = Base
          /\ cycleLog' = Append(cycleLog,
                 [timestamp |-> now, obs |-> obs, fault |-> fault,
                  stopped |-> ~running,
                  emit |-> IF fault \/ CollectRaises(obs)
                           THEN 0 ELSE Len(emitted) + 1])
          /\ IF fault \/ CollectRaises(obs)
             THEN /\ pc' = "backoff"
                  /\ UNCHANGED emitted
             ELSE /\ pc' = "sleep"
                  /\ emitted' = Append(emitted, CollectNetworkData(obs, now))
    /\ UNCHANGED <<running, now, cycles>>
    /\ UNCHANGED guiVars
    /\ UNCHANGED parseVars
    /\ UNCHANGED scriptVars

PollCycle == PollCycleOf(Scenarios)

\* time.sleep(2) returns
SleepDone ==
    /\ pc = "sleep"
    /\ now' = now + SleepSeconds
    /\ pc' = "loop"
    /\ UNCHANGED <<running, cycles, emitted, cycleLog>>
    /\ UNCHANGED guiVars
    /\ UNCHANGED parseVars
    /\ UNCHANGED scriptVars

\* time.sleep(5) of the except branch returns
BackoffDone ==
    /\ pc = "backoff"
    /\ now' = now + BackoffSeconds
    /\ pc' = "loop"
    /\ UNCHANGED <<running, cycles, emitted, cycleLog>>
    /\ UNCHANGED guiVars
    /\ UNCHANGED parseVars
    /\ UNCHANGED scriptVars

\* a loop without an exit (`while True`)
LoopExitNever ==
    /\ pc = "loop"
    /\ ~running
    /\ FALSE
    /\ UNCHANGED vars

\* `while self.running` is false
LoopExit ==
    /\ pc = "loop"
    /\ ~running
    /\ pc' = "done"
    /\ UNCHANGED <<running, now, cycles, emitted, cycleLog>>
    /\ UNCHANGED guiVars
    /\ UNCHANGED parseVars
    /\ UNCHANGED scriptVars

\* DataCollectionThread.stop, called by MainWindow.closeEvent, which then
\* blocks the GUI thread in data_thread.wait()
Stop ==
    /\ running
    /\ running' = FALSE
    /\ UNCHANGED threadVars
    /\ UNCHANGED guiVars
    /\ UNCHANGED parseVars
    /\ UNCHANGED scriptVars

\* MainWindow.update_dashboard, the slot of data_updated: the GUI thread
\* handles the oldest signal not yet handled
UpdateDashboard ==
    /\ running
    /\ delivered < Len(emitted)
    /\ LET data == emitted[delivered + 1]
           container_data == data.containers
           bgp_data == data.bgp_sessions
           attack_data == data.attacks
       IN  /\ panel' = update_status(container_data, bgp_data)
           /\ topology' = update_topology(topology.graph, container_data,
                                          bgp_data, attack_data)
           /\ status_bar' = [online |-> OnlineCount(container_data),
                             updated |-> now]
           /\ shown' = [panel |-> data.timestamp,
                        topology |-> data.timestamp,
                        status_bar |-> data.timestamp]
    /\ delivered' = delivered + 1
    /\ UNCHANGED running
    /\ UNCHANGED threadVars
    /\ UNCHANGED parseVars
    /\ UNCHANGED scriptVars

Next ==
    \/ LoopEnter
    \/ PollCycle
    \/ SleepDone
    \/ BackoffDone
    \/ LoopExit
    \/ Stop
    \/ UpdateDashboard

Spec == Init /\ [][Next]_vars

\* The thread is scheduled, every subprocess.run of a cycle returns or
\* raises within its timeout, and time.sleep returns: each step of run()
\* that can be taken is taken.  Nothing obliges the user to close the window
\* or the GUI thread to handle a signal.
ThreadFairness ==
    /\ WF_vars(LoopEnter)
    /\ WF_vars(PollCycle)
    /\ WF_vars(SleepDone)
    /\ WF_vars(BackoffDone)
    /\ WF_vars(LoopExit)

SpecFair == Init /\ [][Next]_vars /\ ThreadFairness

(***************************************************************************)
(* The attack buttons: MainWindow.launch_attack and                       *)
(* MainWindow.cleanup_attacks, slots of the GUI thread.  config[n] holds   *)
(* the statements of n's                                                   *)
(* `router bgp` section that these commands add and remove: "network"      *)
(* for `network 8.8.8.0/24`, "route_map" for the POISON route-map.  A      *)
(* command takes effect when vtysh ran to its end ("ok"); it may also exit *)
(* non-zero or run into the timeout, which raises.                         *)
(***************************************************************************)
AttackTypes == {"hijack", "poison"}

CommandResults == {"ok", "exit", "timeout"}

\* the container and the statement of each attack (lines 315-323)
AttackTarget(attack_type) == IF attack_type = "hijack" THEN "as500" ELSE "as400"

AttackStatement(attack_type) ==
    IF attack_type = "hijack" THEN "network" ELSE "route_map"

\* the entries of the attack log: the line written when an operation
\* starts, and the lines with the check mark and with the cross
LogKinds == {"info", "success", "error"}

\* what the try block of an operation appends after its commands: the
\* success line follows the last subprocess.run unconditionally, the except
\* branch is taken only when a command raises
LoggedAfter(results) ==
    IF \E i \in DOMAIN results : results[i] = "timeout"
    THEN "error" ELSE "success"

\* MainWindow.launch_attack, its command ending in one of `results`
LaunchAttackOf(results) ==
    /\ running
    /\ \E attack_type \in AttackTypes, res \in results :
          /\ config' =
                IF res = "ok"
                THEN [config EXCEPT ![AttackTarget(attack_type)] =
                                      @ \cup {AttackStatement(attack_type)}]
                ELSE config
          /\ last_op' = [op |-> attack_type,
                         issued |-> <<AttackTarget(attack_type)>>,
                         results |-> <<res>>,
                         log |-> <<"info", LoggedAfter(<<res>>)>>]
    /\ UNCHANGED <<running, check, enhancedVars>>
    /\ UNCHANGED threadVars
    /\ UNCHANGED guiVars
    /\ UNCHANGED parseVars

\* the containers whose cleanup command ran to its end: the loop of
\* cleanup_attacks stops at the first command that raises
CleanedBy(res) ==
    {containers[i] : i \in {j \in DOMAIN containers :
                               /\ res[j] = "ok"
                               /\ \A k \in 1..j : res[k] # "timeout"}}

\* results of the five cleanup commands: all run to their end, or all but
\* one, which exits non-zero or runs into the timeout
CleanupResults ==
    {res \in [DOMAIN containers -> CommandResults] :
        Cardinality({i \in DOMAIN containers : res[i] # "ok"}) <= 1}

\* the commands of the cleanup loop that were started: the loop is left at
\* the first command that raises
IssuedBy(res) ==
    IF \E j \in DOMAIN res : res[j] = "timeout"
    THEN 1..(CHOOSE j \in DOMAIN res :
                /\ res[j] = "timeout"
                /\ \A k \in 1..(j - 1) : res[k] # "timeout")
    ELSE DOMAIN res

\* MainWindow.cleanup_attacks, its five commands ending as one of `vectors`
CleanupAttacksOf(vectors) ==
    /\ running
    /\ \E res \in vectors :
          /\ config' = [n \in Nodes |->
                          IF n \in CleanedBy(res) THEN {} ELSE config[n]]
          /\ last_op' = [op |-> "cleanup",
                         issued |-> [i \in IssuedBy(res) |-> containers[i]],
                         results |-> [i \in IssuedBy(res) |-> res[i]],
                         log |-> <<"info", LoggedAfter(res)>>]
    /\ UNCHANGED <<running, check, enhancedVars>>
    /\ UNCHANGED threadVars
    /\ UNCHANGED guiVars
    /\ UNCHANGED parseVars

LaunchAttack == LaunchAttackOf(CommandResults)

CleanupAttacks == CleanupAttacksOf(CleanupResults)

\* the buttons next to the polling thread: their commands run to the end
\* with exit status 0 (what becomes of a command that fails is the subject
\* of SpecButtons)
LaunchAttackControl == LaunchAttackOf({"ok"})

CleanupAttacksControl ==
    CleanupAttacksOf({[i \in DOMAIN containers |-> "ok"]})

\* what the cycles observe while the buttons are in use: as500 answers
\* without the prefix, with the prefix as best path, or not at all, or its
\* container is not running
ControlScenarios ==
    { Base,
      With("as500", Ok("up"), Ok("best")),
      With("as500", Ok("up"), Timeout),
      WithPs("ok", <<"as100", "as200", "as300", "as400">>,
             "as500", Ok("best")) }

PollCycleControl == PollCycleOf(ControlScenarios)

\* the dashboard with its buttons in use
NextControl ==
    \/ LoopEnter
    \/ PollCycleControl
    \/ SleepDone
    \/ BackoffDone
    \/ LoopExit
    \/ Stop
    \/ UpdateDashboard
    \/ LaunchAttackControl
    \/ CleanupAttacksControl

SpecControl == Init /\ [][NextControl]_vars

\* the same with the thread being scheduled; nothing obliges the user to
\* press a button
SpecControlFair ==
    /\ Init /\ [][NextControl]_vars
    /\ WF_vars(LoopEnter)
    /\ WF_vars(PollCycleControl)
    /\ WF_vars(SleepDone)
    /\ WF_vars(BackoffDone)
    /\ WF_vars(LoopExit)

\* the buttons alone, each command ending in any of the three ways, until
\* the window is closed
NextButtons ==
    \/ LaunchAttack
    \/ CleanupAttacks
    \/ Stop

SpecButtons == Init /\ [][NextButtons]_vars

(***************************************************************************)
(* The timer-driven dashboard (netsec_dashboard_simple.py): no thread;     *)
(* MainWindow.update_data polls and redraws in one slot of a QTimer.       *)
(***************************************************************************)
\* StatusWidget.update_status: the red border is appended to the frame's
\* style sheet and no branch takes it away
simple_update_status(old, container_data, bgp_data) ==
    [container \in Nodes |->
        LET data == Get(container_data, container, NoContainer)
            bgp == Get(bgp_data, container, NoSessions)
        IN  [status |-> IF data.status = "running"
                        THEN IF data.under_attack THEN "UNDER ATTACK"
                                                  ELSE "ONLINE"
                        ELSE "OFFLINE",
             bgp |-> <<bgp.established, bgp.neighbors>>,
             alert |-> IF data.status = "running" /\ data.under_attack
                       THEN TRUE ELSE old[container].alert]]

\* TopologyWidget.update_topology: a connection is green when both ends run
simple_update_topology(container_data, bgp_data, attacks) ==
    [graph |->
        [node \in Nodes |->
            [status |-> Get(container_data, node, NoContainer).status,
             under_attack |->
                 Get(container_data, node, NoContainer).under_attack]],
     links |->
        [e \in Edges |->
            IF /\ Get(container_data, e[1], NoContainer).status = "running"
               /\ Get(container_data, e[2], NoContainer).status = "running"
            THEN "green" ELSE "red"],
     labels |->
        [node \in Nodes |->
            [bgp |-> Get(bgp_data, node, NoSessions).established,
             routes |-> Get(container_data, node, NoContainer).routes]],
     hijack |-> attacks # <<>>]

\* the status bar message of update_data (lines 445-450)
SimpleStatusMessage(container_data, attacks) ==
    [online |-> OnlineCount(container_data),
     routes |-> SumSeq([i \in DOMAIN containers |->
                          container_data[containers[i]].routes]),
     attacks |-> Len(attacks)]

\* lines 384-438 of update_data: the same loop, the events without 'network'
SimpleCollect(obs, timestamp) ==
    LET data == PollFrom(1, obs, [timestamp |-> timestamp,
                                  containers |-> <<>>,
                                  bgp_sessions |-> <<>>,
                                  attacks |-> <<>>])
    IN  [data EXCEPT !.attacks =
            [i \in DOMAIN data.attacks |->
                [type |-> data.attacks[i].type,
                 target |-> data.attacks[i].target]]]

\* a widget call of update_data that may raise inside the outer try
WidgetErrors == {"none", "update_topology", "showMessage"}

InitSimple ==
    /\ InitProgram
    /\ summaryIn = <<>>
    /\ parsed = [done |-> FALSE, neighbors |-> 0, established |-> 0]

\* MainWindow.update_data, the slot of the timer (setup_timer also calls it
\* once): `docker ps` is not in a try of its own, so its failure leaves
\* through the outer except and nothing is redrawn
UpdateData ==
    /\ pc = "loop"
    /\ cycles < MaxCycles
    /\ \E obs \in Scenarios, raised \in WidgetErrors :
          LET data == SimpleCollect(obs, now)
              polled == obs.ps.kind = "ok"
          IN  /\ raised # "none" => obs = Base
              /\ cycles' = cycles + 1
              /\ cycleLog' = Append(cycleLog,
                     [timestamp |-> now, obs |-> obs,
                      fault |-> raised # "none",
                      stopped |-> ~running,
                      emit |-> IF polled THEN Len(emitted) + 1 ELSE 0])
              /\ emitted' = IF polled THEN Append(emitted, data) ELSE emitted
              /\ delivered' = IF polled THEN delivered + 1 ELSE delivered
              /\ panel' = IF polled
                          THEN simple_update_status(panel, data.containers,
                                                    data.bgp_sessions)
                          ELSE panel
              /\ topology' =
                     IF polled /\ raised # "update_topology"
                     THEN simple_update_topology(data.containers,
                                                 data.bgp_sessions,
                                                 data.attacks)
                     ELSE topology
              /\ status_bar' =
                     IF polled /\ raised = "none"
                     THEN SimpleStatusMessage(data.containers, data.attacks)
                     ELSE status_bar
              /\ shown' =
                     [panel |-> IF polled THEN now ELSE shown.panel,
                      topology |-> IF polled /\ raised # "update_topology"
                                   THEN now ELSE shown.topology,
                      status_bar |-> IF polled /\ raised = "none"
                                     THEN now ELSE shown.status_bar]
    /\ pc' = "sleep"
    /\ UNCHANGED <<running, now>>
    /\ UNCHANGED parseVars
    /\ UNCHANGED scriptVars

\* the 3000 ms of self.timer.start(3000) pass
TimerTimeout ==
    /\ pc = "sleep"
    /\ now' = now + TimerSeconds
    /\ pc' = "loop"
    /\ UNCHANGED <<running, cycles, emitted, cycleLog>>
    /\ UNCHANGED guiVars
    /\ UNCHANGED parseVars
    /\ UNCHANGED scriptVars

NextSimple ==
    \/ UpdateData
    \/ TimerTimeout

SpecSimple == InitSimple /\ [][NextSimple]_vars

(***************************************************************************)
(* The status check of the attack simulator script                         *)
(* (WorkingBGPAttackSimulator.show_bgp_status).  check.pc is the           *)
(* subprocess.run call the script is waiting in, check.i the container of  *)
(* the loop it is in, check.report what it has printed.  An external       *)
(* process may return or never return; a call that carries a timeout       *)
(* raises TimeoutExpired when it has not returned by then.                 *)
(***************************************************************************)
\* the timeout argument of each subprocess.run; 0 stands for none
NoTimeout == 0
StatusTimeout == 10

StatusTimeouts ==
    [docker_ps |-> NoTimeout, summary |-> StatusTimeout,
     routes |-> StatusTimeout]

StatusCalls == DOMAIN StatusTimeouts

\* the loop `for as_name in [...]` moves on: next container, next loop, end
StatusAdvance(line) ==
    [pc |-> IF check.i < Len(containers) THEN check.pc
            ELSE IF check.pc = "summary" THEN "routes" ELSE "done",
     i |-> IF check.i < Len(containers) THEN check.i + 1
           ELSE IF check.pc = "summary" THEN 1 ELSE 0,
     report |-> check.report \o line]

InitStatus ==
    /\ InitProgram
    /\ summaryIn = <<>>
    /\ parsed = [done |-> FALSE, neighbors |-> 0, established |-> 0]

\* show_bgp_status calls check_containers, which runs `docker ps`
StatusCheckStart ==
    /\ check.pc = "idle"
    /\ check' = [pc |-> "docker_ps", i |-> 0, report |-> <<>>]
    /\ UNCHANGED <<running, config, last_op, enhancedVars>>
    /\ UNCHANGED threadVars
    /\ UNCHANGED guiVars
    /\ UNCHANGED parseVars

\* the external process of the pending call returns (or cannot be started)
StatusCommandReturns ==
    /\ check.pc \in StatusCalls
    /\ \/ /\ check.pc = "docker_ps"
          /\ \E res \in {"all", "missing", "error"} :
                check' =
                    IF res = "all"
                    THEN [pc |-> "summary", i |-> 1,
                          report |-> <<"All containers running">>]
                    ELSE [pc |-> "done", i |-> 0,
                          report |-> <<IF res = "missing"
                                       THEN "Missing containers"
                                       ELSE "Container check failed">>]
       \/ /\ check.pc = "summary"
          /\ \E res \in {"established", "connecting", "not responding",
                          "Connection failed"} :
                check' = StatusAdvance(<<res>>)
       \/ /\ check.pc = "routes"
          /\ \E res \in {"learning", "exit", "error"} :
                check' = StatusAdvance(IF res = "learning"
                                       THEN <<"Learning routes">> ELSE <<>>)
    /\ UNCHANGED <<running, config, last_op, enhancedVars>>
    /\ UNCHANGED threadVars
    /\ UNCHANGED guiVars
    /\ UNCHANGED parseVars

\* the timeout of the pending call expires: subprocess.run raises
StatusCommandTimesOut ==
    /\ check.pc \in StatusCalls
    /\ StatusTimeouts[check.pc] > NoTimeout
    /\ check' = StatusAdvance(IF check.pc = "summary"
                              THEN <<"Connection failed">> ELSE <<>>)
    /\ UNCHANGED <<running, config, last_op, enhancedVars>>
    /\ UNCHANGED threadVars
    /\ UNCHANGED guiVars
    /\ UNCHANGED parseVars

NextStatus ==
    \/ StatusCheckStart
    \/ StatusCommandReturns
    \/ StatusCommandTimesOut

\* timers expire; nothing obliges an external process to return
SpecStatus == InitStatus /\ [][NextStatus]_vars
                /\ WF_vars(StatusCommandTimesOut)

(***************************************************************************)
(* Parser harness: the session-summary parser applied to one output built  *)
(* of at most MaxLines lines.                                              *)
(***************************************************************************)
LineKinds == {"peer", "held", "peer9", "held9", "peer3",
              "header", "router_id", "version", "blank"}

LineOf(kind) ==
    CASE kind = "peer" -> PeerLine("as200", 10, Num)
      [] kind = "held" -> PeerLine("as300", 10, PolicyMarker)
      [] kind = "peer9" -> PeerLine("as400", 9, Num)
      [] kind = "held9" -> PeerLine("as500", 9, PolicyMarker)
      [] kind = "peer3" -> PeerLine("as100", 3, Num)
      [] kind = "header" -> HeaderLine
      [] kind = "router_id" -> RouterIdLine("as100")
      [] kind = "version" -> <<<<"4", ".", "0">>>> \o Fill(9, Num)
      [] kind = "blank" -> <<>>

lineOf == [k \in LineKinds |-> LineOf(k)]

SummaryInputs ==
    UNION {[1..k -> LineKinds] : k \in 1..MaxLines}

InitParse ==
    /\ InitProgram
    /\ summaryIn \in SummaryInputs
    /\ parsed = [done |-> FALSE, neighbors |-> 0, established |-> 0]

\* lines 398-413 on the output summaryIn
ParseSummary ==
    /\ ~parsed.done
    /\ LET lines == [i \in DOMAIN summaryIn |-> lineOf[summaryIn[i]]]
           counts == SessionCounts(lines)
       IN  parsed' = [done |-> TRUE,
                      neighbors |-> counts.neighbors,
                      established |-> counts.established]
    /\ UNCHANGED <<summaryIn, routeIn, counted>>
    /\ UNCHANGED <<running, pc, now, cycles, emitted, cycleLog>>
    /\ UNCHANGED guiVars
    /\ UNCHANGED scriptVars

NextParse == ParseSummary

SpecParse == InitParse /\ [][NextParse]_vars

(***************************************************************************)
(* Route-count harness: route_output.count('*>') applied, twice, to one    *)
(* dump built of at most MaxLines lines.                                   *)
(***************************************************************************)
RouteLineKinds == {"best", "valid", "legend", "twice", "elsewhere", "blank"}

RouteLineOf(kind) ==
    CASE kind = "best" -> RouteLine(BestMarker, OtherPrefix)
      [] kind = "valid" -> RouteLine(Star, LocalPrefix)
      [] kind = "legend" -> RouteHeader[1]
      [] kind = "twice" -> <<BestMarker, OtherPrefix, AnyHop, BestMarker>>
      [] kind = "elsewhere" -> <<Word, Word, BestMarker, Word>>
      [] kind = "blank" -> <<>>

routeLineOf == [k \in RouteLineKinds |-> RouteLineOf(k)]

RouteInputs == UNION {[1..k -> RouteLineKinds] : k \in 1..MaxLines}

\* route_output = route_result.stdout (line 423)
ReadRoutes ==
    /\ routeIn = <<>>
    /\ \E in \in RouteInputs : routeIn' = in
    /\ UNCHANGED <<summaryIn, parsed, counted>>
    /\ UNCHANGED <<running, config, check, last_op, enhancedVars>>
    /\ UNCHANGED threadVars
    /\ UNCHANGED guiVars

\* route_output.count('*>') (line 424) on the dump read
CountRoutes ==
    /\ routeIn # <<>>
    /\ Len(counted) < 2
    /\ counted' = Append(counted,
           RouteCount([i \in DOMAIN routeIn |-> routeLineOf[routeIn[i]]]))
    /\ UNCHANGED <<summaryIn, parsed, routeIn>>
    /\ UNCHANGED <<running, config, check, last_op, enhancedVars>>
    /\ UNCHANGED threadVars
    /\ UNCHANGED guiVars

NextRoutes ==
    \/ ReadRoutes
    \/ CountRoutes

SpecRoutes == Init /\ [][NextRoutes]_vars

(***************************************************************************)
(* The enhanced dashboard (netsec_dashboard_enhanced.py): a mock-up whose  *)
(* buttons change its own tables and run no command.                       *)
(***************************************************************************)
\* NetSecSimDashboard.updateContainerDisplay
updateContainerDisplay(states) ==
    [n \in EnhancedNodes |->
        IF states[n] = "attack" THEN "ATTACK" ELSE "ONLINE"]

\* the message NetSecSimDashboard.updateStatusBar shows
StatusText(states, time) ==
    [online |-> Cardinality({n \in EnhancedNodes : states[n] = "online"}),
     attacks |-> Cardinality({n \in EnhancedNodes : states[n] = "attack"}),
     time |-> time]

\* NetSecSimDashboard.logAction
logAction(log, time, message) ==
    Append(log, [timestamp |-> time, message |-> message])

\* NetworkTopologyWidget.simulateAttack
simulateAttack(ns, attack_type) ==
    IF attack_type = "prefix_hijack"
    THEN [ns EXCEPT !["AS100"] = "attack", !["AS400"] = "attack"]
    ELSE ns

\* NetSecSimDashboard.launchPrefixHijack
launchPrefixHijack ==
    /\ running
    /\ Len(attack_log) < MaxLogged
    /\ attack_log' = logAction(attack_log, now, "Prefix hijack launched")
    /\ container_states' = [container_states EXCEPT !["AS100"] = "attack",
                                                    !["AS400"] = "attack"]
    /\ indicators' = updateContainerDisplay(container_states')
    /\ nodes' = simulateAttack(nodes, "prefix_hijack")
    /\ attack_path' = << <<"AS100", "AS400">>, <<"AS400", "AS200">> >>
    /\ status_text' = StatusText(container_states', now)
    /\ UNCHANGED <<running, config, check, last_op>>
    /\ UNCHANGED threadVars
    /\ UNCHANGED guiVars
    /\ UNCHANGED parseVars

\* NetSecSimDashboard.launchRoutePoisoning: the topology widget is not
\* called
launchRoutePoisoning ==
    /\ running
    /\ Len(attack_log) < MaxLogged
    /\ attack_log' = logAction(attack_log, now, "Route poisoning launched")
    /\ container_states' = [container_states EXCEPT !["AS200"] = "attack"]
    /\ indicators' = updateContainerDisplay(container_states')
    /\ status_text' = StatusText(container_states', now)
    /\ UNCHANGED <<nodes, attack_path>>
    /\ UNCHANGED <<running, config, check, last_op>>
    /\ UNCHANGED threadVars
    /\ UNCHANGED guiVars
    /\ UNCHANGED parseVars

\* NetSecSimDashboard.cleanupAttacks with NetworkTopologyWidget.clearAttacks
cleanupAttacks ==
    /\ running
    /\ Len(attack_log) + 1 < MaxLogged
    /\ attack_log' = logAction(logAction(attack_log, now,
                                         "Cleaning up attacks..."),
                               now, "Cleanup complete")
    /\ container_states' = [n \in EnhancedNodes |-> "online"]
    /\ indicators' = updateContainerDisplay(container_states')
    /\ nodes' = [n \in EnhancedNodes |-> "online"]
    /\ attack_path' = <<>>
    /\ status_text' = StatusText(container_states', now)
    /\ UNCHANGED <<running, config, check, last_op>>
    /\ UNCHANGED threadVars
    /\ UNCHANGED guiVars
    /\ UNCHANGED parseVars

\* status_timer fires after its 1000 ms: updateStatusBar
StatusTimerTimeout ==
    /\ running
    /\ now < MaxTicks * StatusTimerSeconds
    /\ now' = now + StatusTimerSeconds
    /\ status_text' = StatusText(container_states, now')
    /\ UNCHANGED <<container_states, nodes, attack_path, indicators,
                   attack_log>>
    /\ UNCHANGED <<running, config, check, last_op>>
    /\ UNCHANGED <<pc, cycles, emitted, cycleLog>>
    /\ UNCHANGED guiVars
    /\ UNCHANGED parseVars

NextEnhanced ==
    \/ launchPrefixHijack
    \/ launchRoutePoisoning
    \/ cleanupAttacks
    \/ StatusTimerTimeout

SpecEnhanced == Init /\ [][NextEnhanced]_vars

(***************************************************************************)
(* What a cycle observed, read off the raw command results.                *)
(***************************************************************************)
\* the log entry of the cycle that emitted emitted[i]
LogOf(i) == CHOOSE e \in Range(cycleLog) : e.emit = i

Published == {e \in Range(cycleLog) : e.emit > 0}

\* `docker ps` listed n
Listed(obs, n) ==
    /\ obs.ps.kind = "ok"
    /\ \E i \in DOMAIN obs.ps.names : obs.ps.names[i] = n

Dots(field) == Cardinality({c \in DOMAIN field : field[c] = "."})

\* lines whose first field is shaped like an IPv4 address
AddressLines(lines) ==
    {i \in DOMAIN lines : Len(lines[i]) >= 1 /\ Dots(lines[i][1]) = 3}

\* address lines with the ten columns of a neighbour row
NeighborLines(lines) == {i \in AddressLines(lines) : Len(lines[i]) >= 10}

\* lines carrying the policy-hold marker
HeldLines(lines) ==
    {i \in DOMAIN lines :
        \E j \in DOMAIN lines[i] :
            \E c \in DOMAIN lines[i][j] : StartsAt(lines[i][j], PolicyMarker, c)}

\* positions at which p occurs in the output
Occurrences(out, p) ==
    UNION {UNION {{<<i, j, c>> : c \in {d \in DOMAIN out[i][j] :
                                          StartsAt(out[i][j], p, d)}}
                  : j \in DOMAIN out[i]}
           : i \in DOMAIN out}

\* the output has a best-path entry for exactly the monitored prefix
BestPathEntry(out) ==
    \E i \in DOMAIN out :
        /\ Len(out[i]) >= 2
        /\ StartsAt(out[i][1], BestMarker, 1)
        /\ out[i][2] = MonitoredPrefix

seenSessions ==
    [n \in Nodes |-> [k \in SummaryKinds |->
        LET t == SummaryText(n, k)
            est == NeighborLines(t) \ HeldLines(t)
        IN  [neighbors |-> Cardinality(NeighborLines(t)),
             established |-> Cardinality(est),
             peers |-> {m \in Nodes : \E i \in est : t[i][1] = as_ips[m]}]]]

seenRoutes ==
    [k \in RouteKinds |->
        LET t == RouteText(k)
        IN  [best |-> Cardinality(Occurrences(t, BestMarker)),
             mentions |-> Occurrences(t, MonitoredPrefix) # {},
             bestPath |-> BestPathEntry(t)]]

\* n answered the summary / route query of the cycle
Answered(obs, n, query) == Listed(obs, n) /\ obs[query][n].kind = "ok"

\* a command against n was issued and timed out or failed
Failed(obs, n) ==
    /\ Listed(obs, n)
    /\ obs.summary[n].kind # "ok" \/ obs.routes[n].kind # "ok"

\* a's summary shows an Established session with b's address
EstablishedWith(obs, a, b) ==
    /\ Answered(obs, a, "summary")
    /\ b \in seenSessions[a][obs.summary[a].out].peers

\* n reported the monitored prefix as best path
ReportsBestPath(obs, n) ==
    /\ Answered(obs, n, "routes")
    /\ seenRoutes[obs.routes[n].out].bestPath

\* the events of a snapshot that name n
EventsFor(data, n) ==
    {i \in DOMAIN data.attacks : data.attacks[i].target = n}

(***************************************************************************)
(* C1.  In every displayed snapshot a declared link (A,B) is drawn healthy *)
(* if and only if A's summary of that cycle has an Established session     *)
(* with B's address and B's summary has one with A's address.              *)
(* The code colours by established counts, so this is violated.            *)
(***************************************************************************)
C1_LinkHealthyIffPeersMatched ==
    delivered > 0 =>
        LET obs == LogOf(delivered).obs
        IN  \A d \in Edges :
                topology.links[d] = "green"
                    <=> /\ EstablishedWith(obs, d[1], d[2])
                        /\ EstablishedWith(obs, d[2], d[1])

(***************************************************************************)
(* C2.  An event naming a node is emitted only if the node's route output  *)
(* of that cycle has a best-path entry for exactly 8.8.8.0/24.             *)
(* The code tests for the substring anywhere, so this is violated.         *)
(***************************************************************************)
C2_EventOnlyForBestPathExactPrefix ==
    \A e \in Published :
        \A n \in Nodes \ {AuthorizedOrigin} :
            EventsFor(emitted[e.emit], n) # {} => ReportsBestPath(e.obs, n)

(***************************************************************************)
(* C3.  The authorized origin as300 is never flagged: no snapshot has an   *)
(* event naming it, its under_attack flag is false in every snapshot, and  *)
(* the status panel never shows it under attack.                           *)
(***************************************************************************)
C3_OriginNeverFlagged ==
    /\ \A i \in DOMAIN emitted :
          /\ EventsFor(emitted[i], AuthorizedOrigin) = {}
          /\ ~emitted[i].containers[AuthorizedOrigin].under_attack
    /\ ~panel[AuthorizedOrigin].alert
    /\ ~topology.graph[AuthorizedOrigin].under_attack

\* as300 itself reported the monitored prefix as best path, and the
\* snapshot of that cycle is on display
C3_Witness ==
    /\ delivered > 0
    /\ ReportsBestPath(LogOf(delivered).obs, AuthorizedOrigin)

(***************************************************************************)
(* C4.  When a node other than as300 reports 8.8.8.0/24 as best path in a  *)
(* cycle, the snapshot of that cycle has exactly one event for it, of type *)
(* prefix_hijack and for that prefix; no snapshot has two events for one   *)
(* node.                                                                   *)
(***************************************************************************)
C4_ExactlyOneEvent ==
    \A e \in Published :
        \A n \in Nodes :
            LET data == emitted[e.emit]
                ev == EventsFor(data, n)
            IN  /\ Cardinality(ev) <= 1
                /\ (n # AuthorizedOrigin /\ ReportsBestPath(e.obs, n)) =>
                      /\ Cardinality(ev) = 1
                      /\ \A i \in ev :
                            /\ data.attacks[i].type = "prefix_hijack"
                            /\ data.attacks[i].network = MonitoredPrefix

\* as500 reported the prefix on two lines, one of them best path
C4_Witness ==
    \E e \in Published :
        /\ ReportsBestPath(e.obs, "as500")
        /\ Cardinality(Occurrences(RouteText(e.obs.routes["as500"].out),
                                   MonitoredPrefix)) = 2
        /\ Cardinality(EventsFor(emitted[e.emit], "as500")) = 1

(***************************************************************************)
(* C5.  A node whose summary or route command timed out or failed is       *)
(* recorded as not running, with zero neighbors, zero established sessions *)
(* and zero routes.  The code keeps it "running" and keeps the result of   *)
(* the other command, so this is violated.                                 *)
(***************************************************************************)
C5_FailedNodeOffline ==
    \A e \in Published :
        \A n \in Nodes :
            Failed(e.obs, n) =>
                LET data == emitted[e.emit]
                    bgp == Get(data.bgp_sessions, n, NoSessions)
                IN  /\ data.containers[n].status # "running"
                    /\ data.containers[n].routes = 0
                    /\ bgp.neighbors = 0
                    /\ bgp.established = 0

(***************************************************************************)
(* What the snapshot of a cycle has to say about node n, read off the raw  *)
(* results of that cycle.                                                  *)
(***************************************************************************)
\* the hijack test of the code (line 426) on the raw output
DetectionHeld(obs, n) ==
    /\ n # AuthorizedOrigin
    /\ Answered(obs, n, "routes")
    /\ seenRoutes[obs.routes[n].out].mentions

ExpectedContainer(obs, n) ==
    [status |-> IF Listed(obs, n) THEN "running" ELSE "stopped",
     routes |-> IF Answered(obs, n, "routes")
                THEN seenRoutes[obs.routes[n].out].best ELSE 0,
     under_attack |-> DetectionHeld(obs, n)]

ExpectedSessions(obs, n) ==
    IF Answered(obs, n, "summary")
    THEN {[neighbors |-> seenSessions[n][obs.summary[n].out].neighbors,
           established |-> seenSessions[n][obs.summary[n].out].established]}
    ELSE IF Listed(obs, n) /\ obs.summary[n].kind = "timeout"
         THEN {NoSessions}
         ELSE {}

SessionsOf(data, n) ==
    IF n \in DOMAIN data.bgp_sessions THEN {data.bgp_sessions[n]} ELSE {}

\* the entry of n in data is what the cycle observed of n
Fresh(data, obs, n) ==
    /\ n \in DOMAIN data.containers
    /\ data.containers[n] = ExpectedContainer(obs, n)
    /\ SessionsOf(data, n) = ExpectedSessions(obs, n)
    /\ Cardinality(EventsFor(data, n)) = IF DetectionHeld(obs, n) THEN 1 ELSE 0

(***************************************************************************)
(* C6.  A cycle in which a command against some node timed out or failed   *)
(* still emits its snapshot (unless an internal fault hit the cycle), and  *)
(* in that snapshot the entry of every other node holds the status,        *)
(* session counts, route count and verdict observed in that cycle.         *)
(***************************************************************************)
C6_FailureIsContained ==
    \A e \in Range(cycleLog) :
        (\E n \in Nodes : Failed(e.obs, n)) =>
            /\ ~e.fault =>
                  /\ e.emit \in DOMAIN emitted
                  /\ emitted[e.emit].timestamp = e.timestamp
            /\ e.emit \in DOMAIN emitted =>
                  /\ DOMAIN emitted[e.emit].containers = Nodes
                  /\ \A m \in Nodes :
                        ~Failed(e.obs, m) => Fresh(emitted[e.emit], e.obs, m)

\* the summary query of as500 timed out while as300 announced the prefix,
\* and the snapshot of that cycle is on display
C6_Witness ==
    /\ delivered > 0
    /\ LET e == LogOf(delivered)
       IN  /\ e.obs.summary["as500"].kind = "timeout"
           /\ Listed(e.obs, "as500")
           /\ ReportsBestPath(e.obs, AuthorizedOrigin)
           /\ emitted[delivered].containers["as200"].routes = 2

(***************************************************************************)
(* C8.  Emitted snapshots carry strictly increasing timestamps, the GUI    *)
(* handles them in that order, and every field of a snapshot is what the   *)
(* commands of its own cycle returned.                                     *)
(***************************************************************************)
C8_SnapshotsOrderedAndFresh ==
    /\ \A i, j \in DOMAIN emitted :
          i < j => emitted[i].timestamp < emitted[j].timestamp
    /\ delivered > 0 => shown.panel = emitted[delivered].timestamp
    /\ \A e \in Published :
          /\ emitted[e.emit].timestamp = e.timestamp
          /\ DOMAIN emitted[e.emit].containers = Nodes
          /\ DOMAIN emitted[e.emit].bgp_sessions \subseteq Nodes
          /\ \A n \in Nodes : Fresh(emitted[e.emit], e.obs, n)

\* two snapshots emitted; the first cycle saw as500 hijacking and as200's
\* summary time out, the second saw neither
C8_Witness ==
    /\ Len(emitted) = 2
    /\ \E n \in Nodes :
          /\ SessionsOf(emitted[1], n) # SessionsOf(emitted[2], n)
          /\ SessionsOf(emitted[2], n) = {}
    /\ EventsFor(emitted[1], "as500") # {}
    /\ EventsFor(emitted[2], "as500") = {}

(***************************************************************************)
(* C9.  A snapshot has an event for node n if and only if the hijack test  *)
(* held for n on the route output of the same cycle: the event is there in *)
(* every cycle while the condition persists and gone in the first snapshot *)
(* after it stops holding.                                                 *)
(***************************************************************************)
C9_EventsRebuiltEachCycle ==
    \A e \in Published :
        /\ Len(emitted[e.emit].attacks) <= Cardinality(Nodes)
        /\ \A n \in Nodes :
              EventsFor(emitted[e.emit], n) # {} <=> DetectionHeld(e.obs, n)

\* as500 was flagged in the first snapshot and, its route output being
\* clean in the second cycle, is not in the second
C9_Witness ==
    /\ Len(emitted) = 2
    /\ EventsFor(emitted[1], "as500") # {}
    /\ EventsFor(emitted[2], "as500") = {}
    /\ Answered(LogOf(2).obs, "as500", "routes")

(***************************************************************************)
(* C10.  Parser harness.  With N the number of lines whose first field is  *)
(* address-shaped and M those of them carrying "(Policy)", the parser      *)
(* returns N neighbors and N - M established.  The code also asks for ten  *)
(* fields, so the statement fails on shorter address lines; it holds with  *)
(* N and M counted over the address lines of at least ten fields.          *)
(***************************************************************************)
SummaryLines == [i \in DOMAIN summaryIn |-> lineOf[summaryIn[i]]]

C10_AddressLinesCounted ==
    parsed.done =>
        LET N == Cardinality(AddressLines(SummaryLines))
            M == Cardinality(AddressLines(SummaryLines)
                               \cap HeldLines(SummaryLines))
        IN  /\ parsed.neighbors = N
            /\ parsed.established = N - M

C10_NeighborRowsCounted ==
    parsed.done =>
        LET N == Cardinality(NeighborLines(SummaryLines))
            M == Cardinality(NeighborLines(SummaryLines)
                               \cap HeldLines(SummaryLines))
        IN  /\ parsed.neighbors = N
            /\ parsed.established = N - M

\* a parsed summary with two neighbour rows, one of them held by policy,
\* and a shorter address line
C10_Witness ==
    /\ parsed.done
    /\ Cardinality(NeighborLines(SummaryLines)) = 2
    /\ Cardinality(NeighborLines(SummaryLines) \cap HeldLines(SummaryLines)) = 1
    /\ AddressLines(SummaryLines) # NeighborLines(SummaryLines)

(***************************************************************************)
(* C7.  Timer-driven dashboard.  At every moment the status panel, the     *)
(* topology view and the status bar all display one and the same snapshot: *)
(* the last one, or the one before it (before the first one, what the      *)
(* widgets were built with).  The panel keeps the red frame of an earlier  *)
(* attack, and a widget call that raises leaves the later widgets on the   *)
(* earlier snapshot, so this is violated.                                  *)
(***************************************************************************)
\* what the three widgets display when all of them show data
DisplayOf(data) ==
    [panel |->
        [n \in Nodes |->
            [status |-> IF data.containers[n].status = "running"
                        THEN IF data.containers[n].under_attack
                             THEN "UNDER ATTACK" ELSE "ONLINE"
                        ELSE "OFFLINE",
             bgp |-> <<Get(data.bgp_sessions, n, NoSessions).established,
                       Get(data.bgp_sessions, n, NoSessions).neighbors>>,
             alert |-> data.containers[n].under_attack]],
     topology |-> simple_update_topology(data.containers, data.bgp_sessions,
                                         data.attacks),
     status_bar |-> SimpleStatusMessage(data.containers, data.attacks)]

C7_ConsumersShowOneSnapshot ==
    \/ /\ shown = [panel |-> -1, topology |-> -1, status_bar |-> -1]
       /\ \A n \in Nodes : ~panel[n].alert
    \/ \E i \in DOMAIN emitted :
          /\ shown = [panel |-> emitted[i].timestamp,
                      topology |-> emitted[i].timestamp,
                      status_bar |-> emitted[i].timestamp]
          /\ panel = DisplayOf(emitted[i]).panel
          /\ topology = DisplayOf(emitted[i]).topology
          /\ status_bar = DisplayOf(emitted[i]).status_bar

\* the same as long as no widget call has raised: violated by the red frame
\* alone
OneSnapshotWhileNoWidgetRaised ==
    (\A e \in Range(cycleLog) : ~e.fault /\ e.emit > 0)
        => C7_ConsumersShowOneSnapshot

(***************************************************************************)
(* The poll loop as seen in the log of its cycles.                         *)
(***************************************************************************)
\* an error left the cycle: an internal fault, or nothing was published
CycleFailed(e) == e.fault \/ e.emit = 0

\* the wait that followed cycle i is over
Waited(i) == i < Len(cycleLog) \/ pc \in {"loop", "collect", "done"}

\* seconds between cycle i and the cycle after it (or the loop test after it)
DelayAfter(i) ==
    IF i < Len(cycleLog)
    THEN cycleLog[i + 1].timestamp - cycleLog[i].timestamp
    ELSE now - cycleLog[i].timestamp

(***************************************************************************)
(* C11.  A cycle in which an unexpected error is raised publishes nothing, *)
(* does not end the loop (the loop is done only after a stop request), and *)
(* is followed by a wait strictly longer than the wait after any cycle     *)
(* that succeeded; so for every failing cycle, however many in a row.      *)
(* The threaded dashboard does so (2 s / 5 s); the timer-driven one fires  *)
(* every 3 s whether the cycle failed or not, and a widget error leaves a  *)
(* part of the cycle's snapshot on display, so this is violated there.     *)
(***************************************************************************)
C11_FailedCycleBacksOff ==
    \A i \in DOMAIN cycleLog :
        CycleFailed(cycleLog[i]) =>
            /\ cycleLog[i].emit = 0
            /\ \A w \in DOMAIN shown : shown[w] # cycleLog[i].timestamp
            /\ pc = "done" => ~running
            /\ Waited(i) =>
                  \A j \in DOMAIN cycleLog :
                      (~CycleFailed(cycleLog[j]) /\ Waited(j)) =>
                          DelayAfter(i) > DelayAfter(j)

(***************************************************************************)
(* C12.  stop() only clears the flag: it leaves the thread where it is, so *)
(* a cycle in flight finishes and may still publish.  With the flag        *)
(* cleared no cycle is entered any more, at most one cycle (the one in     *)
(* flight) finishes after the request, and the loop is left only with the  *)
(* flag cleared.                                                           *)
(***************************************************************************)
C12_StopAtCycleBoundary ==
    [][ /\ (running /\ ~running') => UNCHANGED threadVars
        /\ ~running => cycles' = cycles
        /\ (pc # "done" /\ pc' = "done") => (~running /\ pc = "loop")
        /\ Cardinality({i \in DOMAIN cycleLog' : cycleLog'[i].stopped}) <= 1
      ]_vars

\* stop() came while a cycle was in flight; the cycle published its
\* snapshot and the loop then ended
C12_Witness ==
    /\ pc = "done"
    /\ \E e \in Range(cycleLog) : e.stopped /\ e.emit > 0

(***************************************************************************)
(* C13.  Once stop() has been called the thread reaches the end of run(),  *)
(* from any point of the cycle and whatever the commands in flight return: *)
(* data_thread.wait() in closeEvent returns.                               *)
(***************************************************************************)
C13_StopTerminates == (~running) ~> (pc = "done")

\* stop() came during a cycle in which a command against a node failed or
\* timed out, and the loop has ended
C13_Witness ==
    /\ pc = "done"
    /\ \E e \in Range(cycleLog) :
          e.stopped /\ \E n \in Nodes : Failed(e.obs, n)

(***************************************************************************)
(* C14.  Every external command of the monitoring path carries a timeout,  *)
(* so a status check that has started always comes to its end.             *)
(* check_containers runs `docker ps` without a timeout: when that process  *)
(* never returns the status check waits forever, so this is violated.      *)
(***************************************************************************)
C14_StatusCheckCompletes == (check.pc # "idle") ~> (check.pc = "done")

(***************************************************************************)
(* C15.  data_updated is emitted exactly once for every cycle that ran     *)
(* without an internal error, with the snapshot of that cycle, and not at  *)
(* all for a cycle that failed: the emitted snapshots correspond one to    *)
(* one, in order, to the cycles that completed.                            *)
(***************************************************************************)
C15_OneEmitPerCompletedCycle ==
    LET completed == {i \in DOMAIN cycleLog : ~cycleLog[i].fault}
    IN  /\ Len(emitted) = Cardinality(completed)
        /\ \A i \in DOMAIN cycleLog :
              IF i \in completed
              THEN /\ cycleLog[i].emit =
                        Cardinality({j \in completed : j <= i})
                   /\ emitted[cycleLog[i].emit].timestamp =
                        cycleLog[i].timestamp
              ELSE cycleLog[i].emit = 0

\* a cycle failed, the next one completed: one snapshot has been emitted
C15_Witness ==
    /\ Len(cycleLog) = 2
    /\ cycleLog[1].fault
    /\ ~cycleLog[2].fault
    /\ Len(emitted) = 1

(***************************************************************************)
(* C16.  No step of the poll loop, of the GUI slot that displays a         *)
(* snapshot or of stop() changes the configuration of a router: the        *)
(* configuration changes only in launch_attack and cleanup_attacks, and    *)
(* those two change nothing of the poll loop or of the display.            *)
(***************************************************************************)
C16_PollingLeavesConfigAlone ==
    [][ /\ (threadVars' # threadVars \/ guiVars' # guiVars
             \/ running' # running) => config' = config
        /\ config' # config => (LaunchAttack \/ CleanupAttacks)
      ]_vars

\* the hijack was launched on as500, and a cycle polled after that has
\* reported as500 and published its snapshot; the configuration is as
\* launch_attack left it
C16_Witness ==
    /\ "network" \in config["as500"]
    /\ Len(emitted) = 2
    /\ EventsFor(emitted[1], "as500") = {}
    /\ EventsFor(emitted[2], "as500") # {}

(***************************************************************************)
(* C17.  With the buttons in use while the thread polls: as long as stop() *)
(* is not called, the loop always comes to finish a further cycle, and a   *)
(* cycle in which a node other than as300 is listed and reports 8.8.8.0/24 *)
(* as best path publishes a snapshot with a prefix_hijack event for that   *)
(* node.  So once a node reports the prefix in every cycle, an event for   *)
(* it is published.                                                        *)
(***************************************************************************)
C17_DetectionConverges ==
    \A k \in 0..(MaxCycles - 1) :
        (Len(cycleLog) = k)
            ~> \/ ~running
               \/ /\ Len(cycleLog) > k
                  /\ \A n \in Nodes \ {AuthorizedOrigin} :
                        ReportsBestPath(cycleLog[k + 1].obs, n) =>
                            \E i \in DOMAIN emitted :
                                \E j \in EventsFor(emitted[i], n) :
                                    emitted[i].attacks[j].type = "prefix_hijack"

\* the hijack was launched; in the cycle after it as500 did not answer the
\* route query, in the next one it reported the prefix and was flagged
C17_Witness ==
    /\ "network" \in config["as500"]
    /\ Len(cycleLog) = 2
    /\ cycleLog[1].obs.routes["as500"].kind = "timeout"
    /\ cycleLog[1].emit = 1
    /\ EventsFor(emitted[1], "as500") = {}
    /\ ReportsBestPath(cycleLog[2].obs, "as500")
    /\ cycleLog[2].emit = 2
    /\ EventsFor(emitted[2], "as500") # {}

(***************************************************************************)
(* C18.  Whatever cycles are polled and whatever buttons are pressed, the  *)
(* graph of the topology widget has the five nodes and the four links it   *)
(* was set up with, the status panel has the five nodes, and every emitted *)
(* snapshot has a container entry for each of the five nodes and for       *)
(* nothing else (its session entries and events name declared nodes only). *)
(***************************************************************************)
C18_TopologyFixed ==
    /\ DOMAIN topology.graph = Nodes
    /\ DOMAIN topology.links = Edges
    /\ DOMAIN topology.labels = Nodes
    /\ DOMAIN panel = Nodes
    /\ \A i \in DOMAIN emitted :
          /\ DOMAIN emitted[i].containers = Nodes
          /\ DOMAIN emitted[i].bgp_sessions \subseteq Nodes
          /\ \A j \in DOMAIN emitted[i].attacks :
                emitted[i].attacks[j].target \in Nodes

\* attacks were cleaned up and the hijack launched again, and a snapshot
\* taken while the container of as500 was not running is on display
C18_Witness ==
    /\ config[AuthorizedOrigin] = {}
    /\ "network" \in config["as500"]
    /\ delivered > 0
    /\ emitted[delivered].containers["as500"].status = "stopped"
    /\ topology.graph["as500"].status = "stopped"

(***************************************************************************)
(* C19.  In the topology on display, a declared link is drawn unhealthy    *)
(* (red) whenever one of its two ends reported no established session in   *)
(* the cycle of the snapshot shown: its summary listed none, or it gave no *)
(* summary at all; this also when both containers are running.             *)
(* The threaded dashboard colours by the established counts and does so;   *)
(* the timer-driven one colours by container status alone and draws the    *)
(* link healthy, so this is violated there.                                *)
(***************************************************************************)
\* n reported no established session in the cycle
NoEstablished(obs, n) ==
    \/ ~Answered(obs, n, "summary")
    \/ seenSessions[n][obs.summary[n].out].established = 0

C19_NoSessionLinkUnhealthy ==
    shown.topology # -1 =>
        LET e == CHOOSE x \in Range(cycleLog) : x.timestamp = shown.topology
        IN  \A d \in Edges :
                (NoEstablished(e.obs, d[1]) \/ NoEstablished(e.obs, d[2]))
                    => topology.links[d] = "red"

(***************************************************************************)
(* C20.  The two queries of a listed node do not depend on each other.     *)
(* When the summary query fails or times out and the route query answers,  *)
(* the snapshot holds the route count and the verdict of that answer (and  *)
(* the event, if the hijack test held).  When the route query fails or     *)
(* times out and the summary query answers, the snapshot holds the session *)
(* counts parsed from that answer.                                         *)
(***************************************************************************)
C20_QueriesIndependent ==
    \A e \in Published :
        \A n \in Nodes :
            LET data == emitted[e.emit]
                summary_ok == e.obs.summary[n].kind = "ok"
                routes_ok == e.obs.routes[n].kind = "ok"
            IN  Listed(e.obs, n) =>
                  /\ (~summary_ok /\ routes_ok) =>
                        /\ data.containers[n].routes =
                              seenRoutes[e.obs.routes[n].out].best
                        /\ data.containers[n].under_attack
                              = DetectionHeld(e.obs, n)
                        /\ (EventsFor(data, n) # {}) = DetectionHeld(e.obs, n)
                  /\ (summary_ok /\ ~routes_ok) =>
                        /\ n \in DOMAIN data.bgp_sessions
                        /\ data.bgp_sessions[n].neighbors =
                              seenSessions[n][e.obs.summary[n].out].neighbors
                        /\ data.bgp_sessions[n].established =
                              seenSessions[n][e.obs.summary[n].out].established

\* in one cycle the summary query of as500 timed out and its route query
\* got it flagged; in the other the route query of as200 timed out and its
\* sessions were counted
C20_Witness ==
    /\ Len(emitted) = 2
    /\ LogOf(1).obs.summary["as500"].kind = "timeout"
    /\ emitted[1].containers["as500"].under_attack
    /\ EventsFor(emitted[1], "as500") # {}
    /\ LogOf(2).obs.routes["as200"].kind = "timeout"
    /\ "as200" \in DOMAIN emitted[2].bgp_sessions
    /\ emitted[2].bgp_sessions["as200"].established > 0

(***************************************************************************)
(* C21.  In every cycle all queries of all nodes have been made before the *)
(* first hijack verdict is computed: no verdict step precedes a query      *)
(* step.  The code tests each node's route output inside the iteration     *)
(* that polled it, before the next node is polled, so this is violated.    *)
(* (Link colours are computed by update_topology from the emitted          *)
(* snapshot, after the whole collection.)                                  *)
(***************************************************************************)
C21_CollectBeforeVerdicts ==
    \A e \in Range(cycleLog) :
        LET steps == CollectSteps(e.obs)
        IN  \A i, j \in DOMAIN steps :
                (steps[i].op = "verdict"
                    /\ steps[j].op \in {"summary", "routes"}) => j < i

(***************************************************************************)
(* C22.  Route-count harness.  Every count of a dump equals the number of  *)
(* its lines that begin with "*>": a marker further on in a line, or a     *)
(* second marker in a line, adds nothing, and the second parse gives what  *)
(* the first gave.  The code counts the occurrences of "*>" in the whole   *)
(* text, so a line with the marker twice counts 2 and a line with the      *)
(* marker only further on counts 1: this is violated.                      *)
(***************************************************************************)
RouteLines == [i \in DOMAIN routeIn |-> routeLineOf[routeIn[i]]]

\* lines whose first field begins with the best-path marker
BestLines(lines) ==
    {i \in DOMAIN lines :
        Len(lines[i]) >= 1 /\ StartsAt(lines[i][1], BestMarker, 1)}

C22_RouteCountIsBestLines ==
    \A k \in DOMAIN counted :
        /\ counted[k] = Cardinality(BestLines(RouteLines))
        /\ counted[k] = counted[1]

(***************************************************************************)
(* C23.  A summary output without a single neighbour row (empty text,      *)
(* banner lines only, address lines with too few fields) and a route dump  *)
(* without a single best-path line (empty text, legend and column header   *)
(* only) are parsed without an error: the cycle emits its snapshot, and    *)
(* the node has the session entry 0 / 0, respectively the route count 0.   *)
(***************************************************************************)
MalformedSummary(n, kind) == NeighborLines(SummaryText(n, kind)) = {}

MalformedRoutes(kind) == BestLines(RouteText(kind)) = {}

FlaggedNodes(data) == {n \in DOMAIN data.containers : data.containers[n].under_attack}

C24_FlagIffEvent ==
    \A i \in DOMAIN emitted :
        /\ \A n \in Nodes :
              emitted[i].containers[n].under_attack
                  <=> EventsFor(emitted[i], n) # {}
        /\ Cardinality(FlaggedNodes(emitted[i])) = Len(emitted[i].attacks)

\* a snapshot in which as500 is flagged and is the target of the only
\* event, while as300 had the prefix as best path
C24_Witness ==
    \E e \in Published :
        /\ FlaggedNodes(emitted[e.emit]) = {"as500"}
        /\ Len(emitted[e.emit].attacks) = 1
        /\ emitted[e.emit].attacks[1].target = "as500"
        /\ ReportsBestPath(e.obs, AuthorizedOrigin)

(***************************************************************************)
(* C25.  In every emitted snapshot a node that `docker ps` did not list    *)
(* (or could not list) has status "stopped", 0 routes and no under_attack  *)
(* flag, is the target of no event, and neither of the two queries was     *)
(* made against it in that cycle.                                          *)
(***************************************************************************)
C25_UnlistedNodeStopped ==
    \A e \in Published :
        \A n \in Nodes :
            ~Listed(e.obs, n) =>
                /\ emitted[e.emit].containers[n] =
                      [status |-> "stopped", routes |-> 0,
                       under_attack |-> FALSE]
                /\ EventsFor(emitted[e.emit], n) = {}
                /\ \A k \in DOMAIN CollectSteps(e.obs) :
                      CollectSteps(e.obs)[k].node # n

\* `docker ps` listed every container but as500, whose router would have
\* answered with the prefix as best path; the others were polled
C25_Witness ==
    \E e \in Published :
        /\ e.obs.ps.kind = "ok"
        /\ ~Listed(e.obs, "as500")
        /\ Listed(e.obs, "as100")
        /\ e.obs.routes["as500"] = Ok("best")
        /\ emitted[e.emit].containers["as500"].status = "stopped"
        /\ emitted[e.emit].containers["as100"].routes > 0

(***************************************************************************)
(* C26.  In every emitted snapshot each node reported as running has an    *)
(* entry in bgp_sessions, and that entry is 0 / 0 when its summary command *)
(* exited non-zero or timed out.  The code stores the entry when the       *)
(* command exits 0 or raises, and nothing when it exits non-zero, so this  *)
(* is violated.                                                            *)
(***************************************************************************)
C26_RunningNodeHasSessionEntry ==
    \A e \in Published :
        \A n \in Nodes :
            emitted[e.emit].containers[n].status = "running" =>
                /\ n \in DOMAIN emitted[e.emit].bgp_sessions
                /\ e.obs.summary[n].kind # "ok" =>
                      emitted[e.emit].bgp_sessions[n] = NoSessions

(***************************************************************************)
(* C27.  A cycle whose `docker ps` failed or timed out still publishes a   *)
(* snapshot: every declared node stopped with zero routes, no sessions and *)
(* no attack events.  The timer-driven dashboard runs `docker ps` inside   *)
(* the try that wraps the whole of update_data, so there the cycle is      *)
(* abandoned and the widgets keep the previous cycle's data.               *)
(***************************************************************************)
C27_ListingFailurePublishesAllStopped ==
    \A i \in DOMAIN cycleLog :
        cycleLog[i].obs.ps.kind # "ok" =>
            /\ cycleLog[i].emit > 0
            /\ \A n \in Nodes :
                  emitted[cycleLog[i].emit].containers[n] =
                      [status |-> "stopped", routes |-> 0,
                       under_attack |-> FALSE]
            /\ DOMAIN emitted[cycleLog[i].emit].bgp_sessions = {}
            /\ emitted[cycleLog[i].emit].attacks = <<>>

(***************************************************************************)
(* C28.  cleanup_attacks issues its command to every one of the five       *)
(* nodes, as500 among them, whatever happened to the commands before.  The *)
(* five calls share one try block, so a command that runs into its timeout *)
(* ends the loop and the nodes after it are never addressed.               *)
(***************************************************************************)
C28_CleanupReachesEveryNode ==
    last_op.op = "cleanup" =>
        /\ Range(last_op.issued) = Nodes
        /\ \E i \in DOMAIN last_op.issued : last_op.issued[i] = "as500"

(***************************************************************************)
(* C29.  An operation of the attack buttons logs a success entry only if   *)
(* every command it issued exited successfully; if one exited non-zero or  *)
(* timed out, it logs an error entry and no success entry.  The code never *)
(* reads returncode, so a command that exits non-zero is logged as a       *)
(* success.                                                                *)
(***************************************************************************)
C29_SuccessLoggedOnlyOnSuccess ==
    last_op.op # "none" =>
        LET allOk == \A i \in DOMAIN last_op.results :
                         last_op.results[i] = "ok"
            logged == Range(last_op.log)
        IN  /\ "success" \in logged => allOk
            /\ ~allOk => "error" \in logged /\ "success" \notin logged

(***************************************************************************)
(* C30.  In the enhanced dashboard the nodes marked "attack" in            *)
(* container_states are the nodes marked "attack" in the topology widget,  *)
(* whatever buttons were pressed, and after cleanupAttacks there are none  *)
(* and the attack path is empty.  launchRoutePoisoning marks AS200 in      *)
(* container_states and never calls the topology widget, so the two sets   *)
(* differ after it.                                                        *)
(***************************************************************************)
\* the nodes a table marks "attack"
Marked(table) == {n \in EnhancedNodes : table[n] = "attack"}

C30_AttackMarksAgree ==
    /\ Marked(container_states) = Marked(nodes)
    /\ (/\ attack_log # <<>>
        /\ attack_log[Len(attack_log)].message = "Cleanup complete")
          => /\ Marked(container_states) = {}
             /\ Marked(nodes) = {}
             /\ attack_path = <<>>

====
